---- MODULE Spec2Model ----
(***************************************************************************)
(* The patch-queue engine of Fatbuildr (fatbuildr/git.py): a git           *)
(* repository whose commits are kept in step with a directory of patch     *)
(* files, split into a "generic" and a version specific subdirectory.      *)
(*                                                                         *)
(* Text is modelled at the level the code reads it: a file name is a       *)
(* sequence of characters, a text block is a sequence of lines, a line is  *)
(* a sequence of tokens (the key followed by the tokens of the value, the  *)
(* empty sequence for a blank line).                                       *)
(*                                                                         *)
(* The images command of fatbuildrctl (fatbuildr/cli/fatbuildrctl.py) is   *)
(* modelled beside it: one run of the command and what it asked of the     *)
(* images manager.                                                         *)
(***************************************************************************)
EXTENDS Integers, Sequences, FiniteSets, TLC

VARIABLES
    objects,   \* the object store of the repository: the commits, by id
    head,      \* the commit HEAD resolves to, 0 while the branch is unborn
    index,     \* the staging area (pygit2 index): path -> content
    worktree,  \* the working tree: path -> content
    patches,   \* the files below patches_dir: path -> content
    dirs,      \* the directories that exist among patches_dir and its subdirs
    calls,     \* the number of commit_export calls so far
    last,      \* history variable: the last operation and how it ended
    cli,       \* the last run of fatbuildrctl: its arguments and what it did
    exporting, \* an export_queue call in progress: where it is, what it counted
    build,     \* the last run of fatbuildrctl build: what it loaded and asked
    dbus,      \* the tasks of the server and a DbusClient.get call in progress
    timer,     \* a ServerTimer and the threads that call it
    watch      \* a task's log file and a DbusClient.watch call on it

vars == <<objects, head, index, worktree, patches, dirs, calls, last, cli,
          exporting, build, dbus, timer, watch>>

\* the repository and its patches directory
gitvars == <<objects, head, index, worktree, patches, dirs, calls, last>>

\* what the operations on the repository leave alone
others == <<cli, exporting, build, dbus, timer, watch>>

-----------------------------------------------------------------------------
(* Bounds of the model.                                                    *)

MaxPatchFiles == 2   \* patch files the patches directory starts with
MaxIndex == 2        \* largest index in a file name given from outside
MaxCommits == 3      \* non-root commits the repository may hold
MaxCalls == 1        \* calls of commit_export
MaxFormats == 2      \* formats the pipelines of an instance define
MaxTasks == 2        \* tasks submitted to the server
MaxThreads == 2      \* threads that call ServerTimer.waitnotask
MaxLines == 11       \* lines of a task's log before its final line

-----------------------------------------------------------------------------
(* Values.                                                                 *)

Paths == {"a.txt", "b.txt"}          \* the files of the source tree
Contents == {0, 1}                   \* the contents a file may have
BaseTree == [p \in Paths |-> 0]      \* the source tree as extracted
Version == "1.2.3"                   \* the version of the artifact
Top == "."                           \* patches_dir itself
Subdirs == {"generic", Version}

NewTitle == <<"x">>                  \* the title given to commit_export
UserName == "Jane"
UserEmail == "jane@x.org"
Today == "2026-01-01"

Blank == << >>                       \* an empty line
NoKey == ""                          \* what a line without "key:" starts with

-----------------------------------------------------------------------------
(* Strings: formatting, splitting and ordering of file names.              *)

DigitChars == <<"0", "1", "2", "3", "4", "5", "6", "7", "8", "9">>

RECURSIVE Digits(_)
Digits(n) ==
    IF n < 10 THEN <<DigitChars[n + 1]>>
    ELSE Digits(n \div 10) \o <<DigitChars[(n % 10) + 1]>>

RECURSIVE ZeroPad(_, _)
ZeroPad(s, width) ==
    IF Len(s) >= width THEN s ELSE ZeroPad(<<"0">> \o s, width)

\* f"{index:04}": the sign, when there is one, counts in the width
Format04(idx) ==
    IF idx < 0 THEN <<"-">> \o ZeroPad(Digits(0 - idx), 3)
    ELSE ZeroPad(Digits(idx), 4)

\* f"{index:04}-{patch_name}"
PatchName(idx, title) == Format04(idx) \o <<"-">> \o title

\* position of the first dash of a name, 0 when it has none
FirstDash(name) ==
    IF \E i \in 1..Len(name) : name[i] = "-"
    THEN CHOOSE i \in 1..Len(name) :
            /\ name[i] = "-"
            /\ \A j \in 1..(i - 1) : name[j] # "-"
    ELSE 0

\* a variant of TitleOfName: the name split at its last dash
TitleAfterLastDash(name) ==
    SubSeq(name,
           1 + (CHOOSE i \in 1..Len(name) :
                   name[i] = "-" /\ \A j \in (i + 1)..Len(name) : name[j] # "-"),
           Len(name))

\* patch.name.split('-', 1)[1]
TitleOfName(name) == SubSeq(name, FirstDash(name) + 1, Len(name))

\* code point order of the characters file names are made of
Ord(c) ==
    CASE c = "-" -> 45
      [] c = "x" -> 120
      [] c = "y" -> 121
      [] c = "z" -> 122
      [] OTHER -> 47 + (CHOOSE d \in 1..10 : DigitChars[d] = c)

RECURSIVE StrLess(_, _)
StrLess(s, t) ==
    IF t = << >> THEN FALSE
    ELSE IF s = << >> THEN TRUE
    ELSE IF Ord(Head(s)) # Ord(Head(t)) THEN Ord(Head(s)) < Ord(Head(t))
    ELSE StrLess(Tail(s), Tail(t))

\* a variant of Sorted: the names of S in descending order
RECURSIVE SortedReverse(_)
SortedReverse(S) ==
    IF S = {} THEN << >>
    ELSE LET m == CHOOSE a \in S : \A b \in S \ {a} : StrLess(b, a)
         IN  <<m>> \o SortedReverse(S \ {m})

\* sorted(): the names of S in ascending order
RECURSIVE Sorted(_)
Sorted(S) ==
    IF S = {} THEN << >>
    ELSE LET m == CHOOSE a \in S : \A b \in S \ {a} : StrLess(a, b)
         IN  <<m>> \o Sorted(S \ {m})

-----------------------------------------------------------------------------
(* Metadata in deb822 format: an ordered mapping, kept as a sequence of    *)
(* [key, value] fields.                                                    *)

HasKey(meta, k) == \E i \in 1..Len(meta) : meta[i].key = k

GetKey(meta, k) == meta[CHOOSE i \in 1..Len(meta) : meta[i].key = k].value

RECURSIVE DelKey(_, _)
DelKey(meta, k) ==
    IF meta = << >> THEN << >>
    ELSE IF Head(meta).key = k THEN DelKey(Tail(meta), k)
    ELSE <<Head(meta)>> \o DelKey(Tail(meta), k)

\* meta[k] = v: in place when the key is there, appended otherwise
SetKey(meta, k, v) ==
    IF HasKey(meta, k)
    THEN [i \in 1..Len(meta) |->
            IF meta[i].key = k THEN [key |-> k, value |-> v] ELSE meta[i]]
    ELSE Append(meta, [key |-> k, value |-> v])

\* deb822.Deb822(text): the fields of the first paragraph of the text; a
\* line that is neither a field nor a continuation is passed over
RECURSIVE Deb822(_)
Deb822(lines) ==
    IF lines = << >> \/ Head(lines) = Blank THEN << >>
    ELSE IF Head(Head(lines)) = NoKey THEN Deb822(Tail(lines))
    ELSE <<[key |-> Head(Head(lines)), value |-> Tail(Head(lines))]>>
            \o Deb822(Tail(lines))

\* str(meta): one line per field
Dump(meta) == [i \in 1..Len(meta) |-> <<meta[i].key>> \o meta[i].value]

IsMetaGeneric(meta) == HasKey(meta, "Generic") /\ GetKey(meta, "Generic") = <<"yes">>

\* f"{name} <{email}>"
AuthorField(name, email) == <<name, " <", email, ">">>

\* re.match(r'(?P<author>.+) <(?P<email>.+)>', value)
AuthorMatches(value) == Len(value) = 4 /\ value[2] = " <" /\ value[4] = ">"

-----------------------------------------------------------------------------
(* Trees and diffs.  A diff maps each path it touches to <<old, new>>.     *)

TreeDiff(old, new) ==
    [p \in {q \in Paths : old[q] # new[q]} |-> <<old[p], new[p]>>]

\* the external patch command: a hunk whose old side matches is applied,
\* the others are rejected; the exit status tells whether all were applied
RunPatch(tree, body) ==
    [tree |-> [p \in Paths |->
                  IF p \in DOMAIN body /\ tree[p] = body[p][1]
                  THEN body[p][2] ELSE tree[p]],
     returncode |-> IF DOMAIN body = {} THEN 2
                    ELSE IF \A p \in DOMAIN body : tree[p] = body[p][1] THEN 0
                    ELSE 1]

-----------------------------------------------------------------------------
(* The repository.  A repository value R holds the object store, HEAD,     *)
(* the staging area, the working tree, the error the call ended with and   *)
(* the exit statuses of the patch commands the call ran (rcs).             *)

NoError == "none"

Signature(name, email) == [name |-> name, email |-> email]

\* files=None of _base_commit, and a list of files
AllModified == [all |-> TRUE, paths |-> {}]
Listed(paths) == [all |-> FALSE, paths |-> paths]

\* a variant of CreateCommit: the tip of ref is not compared with the parent
CreateCommitUnchecked(R, author_s, message, tree, parents) ==
    [R EXCEPT
        !.objects = Append(R.objects,
                           [parents |-> parents, tree |-> tree,
                            author |-> author_s, message |-> message]),
        !.head = Len(R.objects) + 1]

\* pygit2 create_commit: the commit becomes the target of ref; libgit2
\* refuses a commit whose first parent is not the current tip of ref
CreateCommit(R, author_s, message, tree, parents) ==
    IF R.head # 0 /\ (parents = << >> \/ parents[1] # R.head)
    THEN [R EXCEPT !.err = "GitError"]
    ELSE [R EXCEPT
            !.objects = Append(R.objects,
                               [parents |-> parents, tree |-> tree,
                                author |-> author_s, message |-> message]),
            !.head = Len(R.objects) + 1]

BaseCommit(R, parents, author, email, message, files) ==
    LET staged == IF files.all THEN R.worktree
                  ELSE [p \in Paths |->
                          IF p \in files.paths THEN R.worktree[p] ELSE R.index[p]]
    IN  CreateCommit([R EXCEPT !.index = staged],
                     Signature(author, email), message, staged, parents)

InitialCommit(R, author, email) ==
    BaseCommit(R, << >>, author, email, << <<"Initial commit">> >>, AllModified)

\* a variant of Commit: every modified file is committed, listed or not
CommitAllModified(R, author, email, title, meta, files) ==
    BaseCommit(R, <<R.head>>, author, email,
               <<title, Blank>> \o Dump(meta), AllModified)

Commit(R, author, email, title, meta, files) ==
    BaseCommit(R, <<R.head>>, author, email,
               <<title, Blank>> \o Dump(meta), files)

\* GitRepository(path, author, email) on the path R lives at
OpenRepository(R, author, email) == InitialCommit(R, author, email)

\* what pygit2.init_repository gives on a path that holds no repository yet
EmptyRepository ==
    [objects |-> << >>, head |-> 0, index |-> BaseTree, worktree |-> BaseTree,
     err |-> NoError, rcs |-> << >>]

\* the commits from HEAD back to the root, newest first
RECURSIVE WalkFrom(_, _)
WalkFrom(objs, id) ==
    IF objs[id].parents = << >> THEN <<id>>
    ELSE <<id>> \o WalkFrom(objs, objs[id].parents[1])

Walker(objs, hd) == IF hd = 0 THEN << >> ELSE WalkFrom(objs, hd)

\* diff between a commit and its first parent
Diff(objs, commit) == TreeDiff(objs[commit.parents[1]].tree, commit.tree)

\* commit.message.split("\n", 2)[2]
MessageMeta(commit) == Deb822(SubSeq(commit.message, 3, Len(commit.message)))

\* commit.message.split('\n')[0]
MessageTitle(commit) == commit.message[1]

-----------------------------------------------------------------------------
(* The patches directory.  A file lives at [dir, name]; its content is the *)
(* text of its header followed by the diff body.  A directory value D      *)
(* holds the files and the directories that exist.                         *)

FilePath(dir, name) == [dir |-> dir, name |-> name]

FileContent(text, diff) == [text |-> text, diff |-> diff]

WriteFile(files, path, content) ==
    [q \in DOMAIN files \cup {path} |-> IF q = path THEN content ELSE files[q]]

RemoveFiles(files, gone) == [q \in DOMAIN files \ gone |-> files[q]]

\* the file names found by patches_subdir.iterdir()
NamesIn(files, dir) == {q.name : q \in {r \in DOMAIN files : r.dir = dir}}

-----------------------------------------------------------------------------
(* import_patches                                                          *)

\* for key in ['Author', 'From']: if key in meta: author_key = key
AuthorKey(meta) ==
    IF HasKey(meta, "From") THEN "From"
    ELSE IF HasKey(meta, "Author") THEN "Author"
    ELSE "none"

\* a variant of ApplyPatch: the Generic field is not set
ApplyPatchUnmarked(R, dir, name, content) ==
    LET title      == TitleOfName(name)
        meta       == Deb822(content.text)
        author_key == AuthorKey(meta)
        known      == author_key # "none"
        author     == IF known THEN GetKey(meta, author_key)[1] ELSE "Unknown Author"
        email      == IF known THEN GetKey(meta, author_key)[3] ELSE "unknown@email.com"
        stripped   == IF known THEN DelKey(meta, author_key) ELSE meta
        run        == RunPatch(R.worktree, content.diff)
    IN  IF FirstDash(name) = 0 THEN [R EXCEPT !.err = "IndexError"]
        ELSE IF known /\ ~AuthorMatches(GetKey(meta, author_key))
        THEN [R EXCEPT !.err = "AttributeError"]
        ELSE Commit([R EXCEPT !.worktree = run.tree,
                              !.rcs = Append(R.rcs, run.returncode)],
                    author, email, title, stripped, AllModified)

ApplyPatch(R, dir, name, content) ==
    LET title      == TitleOfName(name)
        meta       == Deb822(content.text)
        author_key == AuthorKey(meta)
        known      == author_key # "none"
        author     == IF known THEN GetKey(meta, author_key)[1] ELSE "Unknown Author"
        email      == IF known THEN GetKey(meta, author_key)[3] ELSE "unknown@email.com"
        stripped   == IF known THEN DelKey(meta, author_key) ELSE meta
        marked     == IF dir = "generic"
                      THEN SetKey(stripped, "Generic", <<"yes">>) ELSE stripped
        run        == RunPatch(R.worktree, content.diff)
    IN  IF FirstDash(name) = 0 THEN [R EXCEPT !.err = "IndexError"]
        ELSE IF known /\ ~AuthorMatches(GetKey(meta, author_key))
        THEN [R EXCEPT !.err = "AttributeError"]
        ELSE Commit([R EXCEPT !.worktree = run.tree,
                              !.rcs = Append(R.rcs, run.returncode)],
                    author, email, title, marked, AllModified)

RECURSIVE ApplyPatches(_, _, _, _)
ApplyPatches(R, files, dir, names) ==
    IF names = << >> \/ R.err # NoError THEN R
    ELSE ApplyPatches(ApplyPatch(R, dir, Head(names),
                                 files[FilePath(dir, Head(names))]),
                      files, dir, Tail(names))

\* a variant of ImportPatchesSubdir: the subdirectory is listed without
\* looking whether it exists
ImportPatchesSubdirUnguarded(R, D, dir) ==
    IF R.err # NoError THEN R
    ELSE IF dir \notin D.dirs THEN [R EXCEPT !.err = "FileNotFoundError"]
    ELSE ApplyPatches(R, D.files, dir, Sorted(NamesIn(D.files, dir)))

ImportPatchesSubdir(R, D, dir) ==
    IF dir \notin D.dirs \/ R.err # NoError THEN R
    ELSE ApplyPatches(R, D.files, dir, Sorted(NamesIn(D.files, dir)))

\* a variant of ImportPatches: the version specific patches come first
ImportVersionFirst(R, D, version) ==
    ImportPatchesSubdir(ImportPatchesSubdir(R, D, version), D, "generic")

ImportPatches(R, D, version) ==
    ImportPatchesSubdir(ImportPatchesSubdir(R, D, "generic"), D, version)

-----------------------------------------------------------------------------
(* export_queue                                                            *)

\* a variant of ExportCommit: the file is written whatever the diff
ExportCommitAlways(objs, D, subdir, idx, commit, meta) ==
    LET authored   == SetKey(meta, "Author",
                             AuthorField(commit.author.name, commit.author.email))
        patch_path == FilePath(subdir, PatchName(idx, MessageTitle(commit)))
    IN  [D EXCEPT !.dirs = D.dirs \cup {subdir},
                  !.files = WriteFile(D.files, patch_path,
                                      FileContent(Dump(DelKey(authored, "Generic")),
                                                  Diff(objs, commit)))]

ExportCommit(objs, D, subdir, idx, commit, meta) ==
    LET authored   == SetKey(meta, "Author",
                             AuthorField(commit.author.name, commit.author.email))
        patch_name == MessageTitle(commit)
        patch_path == FilePath(subdir, PatchName(idx, patch_name))
        plain      == DelKey(authored, "Generic")
        diff       == Diff(objs, commit)
    IN  IF DOMAIN diff # {}
        THEN [D EXCEPT !.dirs = D.dirs \cup {subdir},
                       !.files = WriteFile(D.files, patch_path,
                                           FileContent(Dump(plain), diff))]
        ELSE D

\* a variant of CountCommits: the loop does not stop at the root commit
RECURSIVE CountCommitsWithRoot(_, _, _)
CountCommitsWithRoot(objs, walk, count) ==
    IF walk = << >> THEN count
    ELSE IF IsMetaGeneric(MessageMeta(objs[Head(walk)]))
    THEN CountCommitsWithRoot(objs, Tail(walk),
                              [count EXCEPT !.generic = count.generic + 1])
    ELSE CountCommitsWithRoot(objs, Tail(walk),
                              [count EXCEPT !.version = count.version + 1])

\* the first loop over the walker: the commits of each kind before the root
RECURSIVE CountCommits(_, _, _)
CountCommits(objs, walk, count) ==
    IF walk = << >> \/ objs[Head(walk)].parents = << >> THEN count
    ELSE IF IsMetaGeneric(MessageMeta(objs[Head(walk)]))
    THEN CountCommits(objs, Tail(walk),
                      [count EXCEPT !.generic = count.generic + 1])
    ELSE CountCommits(objs, Tail(walk),
                      [count EXCEPT !.version = count.version + 1])

\* a variant of ExportCommits: a commit with an empty diff is passed over
\* before its counter is decremented
RECURSIVE ExportCommitsKeepIndex(_, _, _, _, _)
ExportCommitsKeepIndex(objs, D, version, walk, count) ==
    IF walk = << >> \/ objs[Head(walk)].parents = << >> THEN D
    ELSE LET commit == objs[Head(walk)]
             meta   == MessageMeta(commit)
             empty  == DOMAIN Diff(objs, commit) = {}
         IN  IF empty
             THEN ExportCommitsKeepIndex(objs, D, version, Tail(walk), count)
             ELSE IF IsMetaGeneric(meta)
             THEN ExportCommitsKeepIndex(objs,
                      ExportCommit(objs, D, "generic", count.generic, commit, meta),
                      version, Tail(walk),
                      [count EXCEPT !.generic = count.generic - 1])
             ELSE ExportCommitsKeepIndex(objs,
                      ExportCommit(objs, D, version, count.version, commit, meta),
                      version, Tail(walk),
                      [count EXCEPT !.version = count.version - 1])

\* the second loop over the walker
RECURSIVE ExportCommits(_, _, _, _, _)
ExportCommits(objs, D, version, walk, count) ==
    IF walk = << >> \/ objs[Head(walk)].parents = << >> THEN D
    ELSE LET commit == objs[Head(walk)]
             meta   == MessageMeta(commit)
         IN  IF IsMetaGeneric(meta)
             THEN ExportCommits(objs,
                      ExportCommit(objs, D, "generic", count.generic, commit, meta),
                      version, Tail(walk),
                      [count EXCEPT !.generic = count.generic - 1])
             ELSE ExportCommits(objs,
                      ExportCommit(objs, D, version, count.version, commit, meta),
                      version, Tail(walk),
                      [count EXCEPT !.version = count.version - 1])

\* a variant of RemoveOldPatches: only the generic subdirectory is emptied
RemoveOldGeneric(D, version) ==
    [D EXCEPT !.files =
        RemoveFiles(D.files, {q \in DOMAIN D.files : q.dir = "generic"})]

\* a variant of RemoveOldPatches: the loop over a subdirectory ends after
\* the first file it unlinks
RemoveFirstOldPatch(D, version) ==
    [D EXCEPT !.files =
        RemoveFiles(D.files,
                    {q \in DOMAIN D.files :
                        /\ q.dir \in {"generic", version}
                        /\ q.name = Sorted(NamesIn(D.files, q.dir))[1]})]

\* every file of the subdirectories that exist is unlinked
RemoveOldPatches(D, version) ==
    [D EXCEPT !.files =
        RemoveFiles(D.files,
                    {q \in DOMAIN D.files :
                        q.dir \in {"generic", version} /\ q.dir \in D.dirs})]

ExportQueue(R, D, version) ==
    LET made    == [D EXCEPT !.dirs = D.dirs \cup {Top}]
        cleared == RemoveOldPatches(made, version)
        walk    == Walker(R.objects, R.head)
        count   == CountCommits(R.objects, walk, [generic |-> 0, version |-> 0])
    IN  ExportCommits(R.objects, cleared, version, walk, count)

\* the counters of the first loop, by kind of commit
NoCount == [generic |-> 0, version |-> 0]

\* a variant of ExportIndices: the counter is decremented before it is used
RECURSIVE ExportIndicesDecrementFirst(_, _, _)
ExportIndicesDecrementFirst(objs, walk, count) ==
    IF walk = << >> \/ objs[Head(walk)].parents = << >> THEN << >>
    ELSE IF IsMetaGeneric(MessageMeta(objs[Head(walk)]))
    THEN <<[id |-> Head(walk), kind |-> "generic", index |-> count.generic - 1]>>
            \o ExportIndicesDecrementFirst(objs, Tail(walk),
                    [count EXCEPT !.generic = count.generic - 1])
    ELSE <<[id |-> Head(walk), kind |-> "version", index |-> count.version - 1]>>
            \o ExportIndicesDecrementFirst(objs, Tail(walk),
                    [count EXCEPT !.version = count.version - 1])

\* the second loop over the walker: the index each commit is exported with
RECURSIVE ExportIndices(_, _, _)
ExportIndices(objs, walk, count) ==
    IF walk = << >> \/ objs[Head(walk)].parents = << >> THEN << >>
    ELSE IF IsMetaGeneric(MessageMeta(objs[Head(walk)]))
    THEN <<[id |-> Head(walk), kind |-> "generic", index |-> count.generic]>>
            \o ExportIndices(objs, Tail(walk),
                             [count EXCEPT !.generic = count.generic - 1])
    ELSE <<[id |-> Head(walk), kind |-> "version", index |-> count.version]>>
            \o ExportIndices(objs, Tail(walk),
                             [count EXCEPT !.version = count.version - 1])

\* the second loop over the walker: the counters it ends with
RECURSIVE ExportCounters(_, _, _)
ExportCounters(objs, walk, count) ==
    IF walk = << >> \/ objs[Head(walk)].parents = << >> THEN count
    ELSE IF IsMetaGeneric(MessageMeta(objs[Head(walk)]))
    THEN ExportCounters(objs, Tail(walk),
                        [count EXCEPT !.generic = count.generic - 1])
    ELSE ExportCounters(objs, Tail(walk),
                        [count EXCEPT !.version = count.version - 1])


\* no export_queue call in progress
NoExport ==
    [pc |-> "idle", count |-> NoCount, seen |-> << >>, walked |-> << >>,
     assigned |-> << >>, final |-> NoCount]

-----------------------------------------------------------------------------
(* commit_export: RD is the pair of the repository and the directory       *)

CommitExport(R, D, patches_dir, idx, title, author, email, description, files) ==
    LET meta        == << [key |-> "Description", value |-> description],
                          [key |-> "Forwarded", value |-> <<"no">>],
                          [key |-> "Last-Update", value |-> <<Today>>] >>
        committed   == Commit(R, author, email, title, meta, files)
        last_commit == committed.objects[committed.head]
        made        == [D EXCEPT !.dirs = D.dirs \cup {Top, patches_dir}]
    IN  IF committed.err # NoError THEN [R |-> committed, D |-> D]
        ELSE [R |-> committed,
              D |-> ExportCommit(committed.objects, made, patches_dir, idx,
                                 last_commit, MessageMeta(last_commit))]

-----------------------------------------------------------------------------
(* The patch files the directory may hold at the start.                    *)

Field(k, v) == <<k>> \o v

PatchSamples ==
    << [title |-> <<"x">>,
        text  |-> << Field("Description", <<"first">>),
                     Field("Author", AuthorField("Ann", "ann@x.org")) >>,
        diff  |-> [p \in {"a.txt"} |-> <<0, 1>>]],
       [title |-> <<"y", "-", "z">>,
        text  |-> << Field("From", AuthorField("Bob", "bob@y.org")),
                     Field("Description", <<"second">>) >>,
        diff  |-> [p \in {"b.txt"} |-> <<0, 1>>]],
       [title |-> <<"x">>,
        text  |-> << Field("Description", <<"third">>) >>,
        diff  |-> [p \in {"a.txt"} |-> <<1, 0>>]],
       [title |-> <<"y", "-", "z">>,
        text  |-> << Field("Description", <<"fourth">>),
                     Field("Generic", <<"yes">>) >>,
        diff  |-> [p \in {"a.txt"} |-> <<0, 1>>]] >>

Candidates ==
    [dir : Subdirs, idx : 1..MaxIndex, sample : 1..Len(PatchSamples)]

CandidatePath(c) == FilePath(c.dir, PatchName(c.idx, PatchSamples[c.sample].title))

\* the sets of at most n candidates
RECURSIVE UpTo(_)
UpTo(n) ==
    IF n = 0 THEN {{}}
    ELSE UpTo(n - 1) \cup {F \cup {c} : F \in UpTo(n - 1), c \in Candidates}

InitialFiles ==
    {F \in UpTo(MaxPatchFiles) :
        \A c, d \in F : c # d => CandidatePath(c) # CandidatePath(d)}

FilesOf(F) ==
    [q \in {CandidatePath(c) : c \in F} |->
        LET c == CHOOSE c \in F : CandidatePath(c) = q
        IN  FileContent(PatchSamples[c.sample].text, PatchSamples[c.sample].diff)]

-----------------------------------------------------------------------------
(* fatbuildrctl images.  A run is the arguments of the command line, the   *)
(* formats it selected, the calls it made to the images manager, its exit  *)
(* status and what it printed.                                             *)

FormatNames == {"deb", "rpm", "osi"}
NoFormat == ""                       \* --format not given

\* the arguments of the images command
ImagesArgs ==
    [create : BOOLEAN, update : BOOLEAN, force : BOOLEAN,
     create_envs : BOOLEAN, update_envs : BOOLEAN,
     format : FormatNames \cup {NoFormat}]

\* connection.pipelines_formats(instance): the formats of the pipelines
RECURSIVE FormatLists(_)
FormatLists(n) ==
    IF n = 0 THEN {<< >>}
    ELSE FormatLists(n - 1)
            \cup {Append(l, f) : l \in FormatLists(n - 1),
                                 f \in FormatNames}

PipelinesFormats ==
    {l \in FormatLists(MaxFormats) :
        \A i, j \in 1..Len(l) : i # j => l[i] # l[j]}

\* connection.pipelines_format_distributions(instance, format)
PipelinesFormatDistributions(format) ==
    CASE format = "deb" -> <<"bookworm", "sid">>
      [] format = "rpm" -> <<"el8">>
      [] OTHER -> << >>

\* connection.pipelines_distribution_environment(instance, distribution),
\* "None" when the distribution has no build environment
PipelinesDistributionEnvironment(distribution) ==
    CASE distribution = "bookworm" -> "bookworm"
      [] distribution = "sid" -> "sid"
      [] OTHER -> "None"

\* a call to the images manager
Call(op, format, force, envs) ==
    [op |-> op, format |-> format, force |-> force, envs |-> envs]

NoOperation == "An operation on the images must be specified"

SelectedFormats(args, available) ==
    IF args.format # NoFormat THEN <<args.format>> ELSE available

\* the operation on the images: every branch ends the run
ImagesOperation(args, selected) ==
    IF args.create
    THEN [calls |-> [i \in 1..Len(selected) |->
                        Call("create", selected[i], args.force, << >>)],
          returned |-> TRUE, status |-> 0, out |-> ""]
    ELSE IF args.update
    THEN [calls |-> [i \in 1..Len(selected) |->
                        Call("update", selected[i], FALSE, << >>)],
          returned |-> TRUE, status |-> 0, out |-> ""]
    ELSE [calls |-> << >>, returned |-> TRUE, status |-> 1, out |-> NoOperation]

\* the build environments found for a format
Envs(format) ==
    SelectSeq([i \in 1..Len(PipelinesFormatDistributions(format)) |->
                  PipelinesDistributionEnvironment(
                      PipelinesFormatDistributions(format)[i])],
              LAMBDA env : env # "None")

\* the operation on the build environments
EnvsOperation(args, selected) ==
    IF args.create_envs
    THEN [i \in 1..Len(selected) |->
            Call("create_envs", selected[i], FALSE, Envs(selected[i]))]
    ELSE IF args.update_envs
    THEN [i \in 1..Len(selected) |->
            Call("update_envs", selected[i], FALSE, Envs(selected[i]))]
    ELSE << >>

\* Fatbuildrctl._run_images(args)
RunImages(args, available) ==
    LET selected == SelectedFormats(args, available)
        images   == ImagesOperation(args, selected)
    IN  [ran |-> TRUE, args |-> args, selected |-> selected,
         calls |-> IF images.returned THEN images.calls
                   ELSE images.calls \o EnvsOperation(args, selected),
         status |-> images.status, out |-> images.out]

\* no run of fatbuildrctl yet
NoRun ==
    [ran |-> FALSE,
     args |-> [create |-> FALSE, update |-> FALSE, force |-> FALSE,
               create_envs |-> FALSE, update_envs |-> FALSE, format |-> NoFormat],
     selected |-> << >>, calls |-> << >>, status |-> 0, out |-> ""]

-----------------------------------------------------------------------------
(* fatbuildrctl build: the common parameters and the build request.        *)

None == "None"

\* what the user may type: every option given or not
CommandLines ==
    [host : {None, "cli.host"}, instance : {None, "cli"},
     basedir : {None, "/cli"}, name : {None, "Cli Name"},
     email : {None, "cli@x.org"}, msg : {None, "cli message"}]

\* what the preferences file may define
UserPreferences ==
    [host : {None, "prefs.host"}, instance : {None, "prefs"},
     basedir : {None, "/prefs"}, user_name : {None, "Prefs Name"},
     user_email : {None, "prefs@x.org"}, message : {None, "prefs message"}]

\* parser.parse_args(): an option that is not given has its default
ParseArgs(line) ==
    [line EXCEPT !.host = IF line.host = None THEN "local" ELSE line.host]

\* Fatbuildrctl.load(args): the host and the instance
Load(args, prefs) ==
    [host |-> IF args.host = None
              THEN IF prefs.host = None THEN "local" ELSE prefs.host
              ELSE args.host,
     instance |-> IF args.instance = None
                  THEN IF prefs.instance = None THEN "default" ELSE prefs.instance
                  ELSE args.instance]

NoRequest ==
    [basedir |-> None, instance |-> None, user_name |-> None,
     user_email |-> None, build_msg |-> None]

Failed(out) == [status |-> 1, request |-> NoRequest, out |-> out]

\* Fatbuildrctl._run_build(args); accepted tells whether the format, the
\* distribution and the derivative pass the checks against the pipelines
RunBuild(args, prefs, instance, accepted) ==
    LET basedir    == IF args.basedir = None THEN prefs.basedir ELSE args.basedir
        user_name  == IF args.name = None THEN prefs.user_name ELSE args.name
        user_email == IF args.email = None THEN prefs.user_name ELSE args.name
        build_msg  == IF args.msg = None THEN prefs.message ELSE args.msg
    IN  IF args.basedir = None /\ prefs.basedir = None
        THEN Failed("Base directory must be defined")
        ELSE IF args.name = None /\ prefs.user_name = None
        THEN Failed("The user name be defined")
        ELSE IF args.email = None /\ prefs.user_email = None
        THEN Failed("The user email must be defined")
        ELSE IF args.msg = None /\ prefs.message = None
        THEN Failed("The build message must be defined")
        ELSE IF ~accepted
        THEN Failed("format")
        ELSE [status |-> 0,
              request |-> [basedir |-> basedir, instance |-> instance,
                           user_name |-> user_name, user_email |-> user_email,
                           build_msg |-> build_msg],
              out |-> "submitted"]

\* Fatbuildrctl.run() for the build action
RunBuildCommand(line, prefs, accepted) ==
    LET args   == ParseArgs(line)
        loaded == Load(args, prefs)
        done   == RunBuild(args, prefs, loaded.instance, accepted)
    IN  [ran |-> TRUE, line |-> line, prefs |-> prefs,
         host |-> loaded.host, instance |-> loaded.instance,
         status |-> done.status, request |-> done.request, out |-> done.out]

\* no run of fatbuildrctl build yet
NoBuild ==
    [ran |-> FALSE,
     line |-> [host |-> None, instance |-> None, basedir |-> None,
               name |-> None, email |-> None, msg |-> None],
     prefs |-> [host |-> None, instance |-> None, basedir |-> None,
                user_name |-> None, user_email |-> None, message |-> None],
     host |-> None, instance |-> None,
     status |-> 0, request |-> NoRequest, out |-> ""]

-----------------------------------------------------------------------------
(* DbusClient.get: three lookups on a server whose tasks move on.          *)

NoTask == 0
TaskIds == 1..MaxTasks

\* self.queue(): the ids of the pending tasks
Queue(server) == {server.queue[i] : i \in 1..Len(server.queue)}

\* self.running(): the running task, None (no id) when there is none
Running(server) == IF server.running = NoTask THEN {} ELSE {server.running}

\* self.archives(limit=0): the ids of the archived tasks
Archives(server) == {server.archives[i] : i \in 1..Len(server.archives)}

\* a variant of LookupOrder: the archives first, the queue last
LookupOrderReversed == <<"archives", "running", "queue">>

\* the lookups of get, in the order of the code
LookupOrder == <<"queue", "running", "archives">>

Lookup(server, place) ==
    CASE place = "queue" -> Queue(server)
      [] place = "running" -> Running(server)
      [] place = "archives" -> Archives(server)

\* where a task is on the server
PlaceOf(server, id) ==
    IF id \in Queue(server) THEN "queue"
    ELSE IF id \in Running(server) THEN "running"
    ELSE IF id \in Archives(server) THEN "archives"
    ELSE "unknown"

NoGet == [pc |-> "idle", id |-> NoTask, step |-> 0,
          start |-> "unknown", found |-> "nowhere"]

\* a server without task, and no call of get
NoTasks ==
    [queue |-> << >>, running |-> NoTask, archives |-> << >>,
     submitted |-> 0, get |-> NoGet]

-----------------------------------------------------------------------------
(* ServerTimer: a set of tasks under a condition.  What is done with the   *)
(* lock of the condition held is one step; a thread that waits on the      *)
(* condition lets the lock go and takes it again before it returns.        *)

Threads == 1..MaxThreads

\* a thread out of waitnotask: what its last call returned, and whether the
\* set of tasks was empty when it returned
Idle == [pc |-> "idle", ret |-> "none", empty |-> FALSE]

\* ServerTimer(): no task, nobody waits, no call of unregister_task yet
NoTimer ==
    [tasks |-> {}, waiters |-> << >>, th |-> [t \in Threads |-> Idle],
     unregistered |-> [called |-> FALSE, known |-> FALSE,
                       changed |-> FALSE, raised |-> FALSE]]

\* a variant of Notify: every waiter is woken
NotifyAll(tm) ==
    [tm EXCEPT !.waiters = << >>,
               !.th = [t \in Threads |->
                          IF tm.th[t].pc = "waiting"
                          THEN [tm.th[t] EXCEPT !.pc = "notified"]
                          ELSE tm.th[t]]]

\* self._cond.notify(): the first of the waiters is taken off and woken;
\* one whose timeout has expired by then has nothing left to wake
Notify(tm) ==
    IF tm.waiters = << >> THEN tm
    ELSE LET woken == Head(tm.waiters)
         IN  [tm EXCEPT !.waiters = Tail(tm.waiters),
                        !.th[woken].pc = IF tm.th[woken].pc = "waiting"
                                         THEN "notified"
                                         ELSE tm.th[woken].pc]

\* ServerTimer.register_task(task)
RegisterTask(tm, task) == [tm EXCEPT !.tasks = tm.tasks \cup {task}]

\* ServerTimer.unregister_task(task)
UnregisterTask(tm, task) ==
    LET removed == [tm EXCEPT !.tasks = tm.tasks \ {task},
                              !.unregistered =
                                  [called |-> TRUE, known |-> task \in tm.tasks,
                                   changed |-> tm.tasks \ {task} # tm.tasks,
                                   raised |-> FALSE]]
    IN  IF removed.tasks = {} THEN Notify(removed) ELSE removed

\* ServerTimer.waitnotask(timeout) up to the wait on the condition
WaitNoTask(tm, t) ==
    IF tm.tasks = {}
    THEN [tm EXCEPT !.th[t] = [pc |-> "idle", ret |-> "True", empty |-> TRUE]]
    ELSE [tm EXCEPT !.waiters = Append(tm.waiters, t),
                    !.th[t] = [pc |-> "waiting", ret |-> "none", empty |-> FALSE]]

\* the end of self._cond.wait(timeout): the lock is taken again, a waiter
\* that was not notified takes itself off the waiters, and what wait
\* returns is what waitnotask returns
WaitReturn(tm, t) ==
    [tm EXCEPT !.waiters = SelectSeq(tm.waiters, LAMBDA w : w # t),
               !.th[t] = [pc |-> "idle",
                          ret |-> IF tm.th[t].pc = "notified" THEN "True"
                                  ELSE "False",
                          empty |-> tm.tasks = {}]]

-----------------------------------------------------------------------------
(* DbusClient.watch: the log file of a task, read whole or followed.       *)

\* the lines tail prints of what the file holds when it starts
TailLines == 10

FinalLines == {"Task failed", "Task succeeded"}

\* line.startswith("Task failed") or line.startswith("Task succeeded")
IsFinal(line) == line \in FinalLines

\* where tail --follow starts in a file of n lines: before its last lines
TailStart(n) == IF n > TailLines THEN n - TailLines ELSE 0

\* watch is not called yet
NoCall == [pc |-> "idle", mode |-> "none", proc |-> "none",
           pos |-> 0, out |-> << >>, eof |-> 0]

\* a running task that has logged nothing yet
NoWatch == [task |-> "running", log |-> << >>, call |-> NoCall]

\* watch(task) up to its loop: a follower is launched for a running task,
\* the file is opened for another
WatchOpen(state) ==
    IF state = "running"
    THEN [NoCall EXCEPT !.pc = "launched", !.mode = "tail", !.proc = "running"]
    ELSE [NoCall EXCEPT !.pc = "reading", !.mode = "file"]

\* one turn of the loop of watch on a line that is there
WatchLine(call, log) ==
    LET line == log[call.pos + 1]
    IN  [call EXCEPT !.pos = call.pos + 1,
                     !.out = Append(call.out, call.pos + 1),
                     !.proc = IF IsFinal(line) /\ call.proc = "running"
                              THEN "terminated" ELSE call.proc]

\* the loop of watch at the end of what it reads
WatchEnd(call, log) == [call EXCEPT !.pc = "done", !.eof = Len(log)]

-----------------------------------------------------------------------------
(* The state machine.                                                      *)

Repo == [objects |-> objects, head |-> head, index |-> index,
         worktree |-> worktree, err |-> NoError, rcs |-> << >>]

Dir == [files |-> patches, dirs |-> dirs]

NoArgs == [dir |-> Top, idx |-> 0, title |-> << >>, files |-> {}]

\* the value of the digits a file name starts with
RECURSIVE Decimal(_)
Decimal(s) ==
    IF s = << >> THEN 0
    ELSE 10 * Decimal(SubSeq(s, 1, Len(s) - 1))
            + (CHOOSE d \in 0..9 : DigitChars[d + 1] = s[Len(s)])

IndexOfName(name) == Decimal(SubSeq(name, 1, FirstDash(name) - 1))

\* the files of the directory are numbered 1..k in each subdirectory, and
\* no file of the version subdirectory has a Generic: yes field
Regular(files) ==
    /\ \A dir \in Subdirs :
          {IndexOfName(n) : n \in NamesIn(files, dir)}
              = 1..Cardinality(NamesIn(files, dir))
    /\ \A q \in DOMAIN files :
          q.dir # "generic" => ~IsMetaGeneric(Deb822(files[q].text))

NoBefore == [op |-> "other", fresh |-> FALSE, clean |-> FALSE, regular |-> FALSE]

\* what the next operation records of the one before it: an import or an
\* export, whether it started on a freshly constructed repository, whether
\* every patch command it ran exited with status 0 and whether the files it
\* read were Regular
Before ==
    IF last.op \in {"import_patches", "export_queue"}
    THEN [op |-> last.op, fresh |-> last.fresh,
          clean |-> last.err = NoError /\ \A i \in 1..Len(last.rcs) : last.rcs[i] = 0,
          regular |-> last.regular]
    ELSE NoBefore

Record(op, args, R) ==
    [op |-> op, args |-> args, err |-> R.err, rcs |-> R.rcs,
     nobj |-> Len(objects), nfiles |-> Cardinality(DOMAIN patches),
     fresh |-> last.op = "GitRepository" /\ last.err = NoError,
     regular |-> Regular(patches),
     before |-> Before]

SetRepo(R) ==
    /\ objects' = R.objects
    /\ head' = R.head
    /\ index' = R.index
    /\ worktree' = R.worktree

\* a repository just constructed, beside a patches directory of these files
StartOn(files) ==
    LET R == OpenRepository(EmptyRepository, UserName, UserEmail)
    IN  /\ objects = R.objects
        /\ head = R.head
        /\ index = R.index
        /\ worktree = R.worktree
        /\ patches = files
        /\ dirs = {q.dir : q \in DOMAIN files}
                    \cup (IF DOMAIN files = {} THEN {} ELSE {Top})
        /\ calls = 0
        /\ cli = NoRun
        /\ exporting = NoExport
        /\ build = NoBuild
        /\ dbus = NoTasks
        /\ timer = NoTimer
        /\ watch = NoWatch
        /\ last = [op |-> "GitRepository", args |-> NoArgs, err |-> R.err,
                   rcs |-> R.rcs, nobj |-> 0,
                   nfiles |-> Cardinality(DOMAIN files),
                   fresh |-> FALSE, regular |-> Regular(files),
                   before |-> NoBefore]

Start(F) == StartOn(FilesOf(F))

\* a repository just constructed on the extracted sources; no patch yet
Init == Start({})

\* the same, beside a directory of patch files
InitQueue == \E F \in InitialFiles : Start(F)

\* GitRepository(path, author, email) on the path of the repository
Open ==
    LET R == OpenRepository(Repo, UserName, UserEmail)
    IN  /\ SetRepo(R)
        /\ last' = Record("GitRepository", NoArgs, R)
        /\ UNCHANGED <<patches, dirs, calls, others>>

\* a variant of DoImportPatches: a patch file is unlinked once it is read
DoImportPatchesUnlinking ==
    LET R == ImportPatches(Repo, Dir, Version)
    IN  /\ Len(objects) + Cardinality(DOMAIN patches) <= MaxCommits + 1
        /\ SetRepo(R)
        /\ last' = Record("import_patches", NoArgs, R)
        /\ patches' = RemoveFiles(patches,
                                  {q \in DOMAIN patches : q.dir \in Subdirs})
        /\ UNCHANGED <<dirs, calls, others>>

DoImportPatches ==
    LET R == ImportPatches(Repo, Dir, Version)
    IN  /\ Len(objects) + Cardinality(DOMAIN patches) <= MaxCommits + 1
        /\ SetRepo(R)
        /\ last' = Record("import_patches", NoArgs, R)
        /\ UNCHANGED <<patches, dirs, calls, others>>

DoExportQueue ==
    LET D == ExportQueue(Repo, Dir, Version)
    IN  /\ patches' = D.files
        /\ dirs' = D.dirs
        /\ last' = Record("export_queue", NoArgs, Repo)
        /\ UNCHANGED <<objects, head, index, worktree, calls, others>>

DoCommitExport ==
    \E dir \in Subdirs, idx \in 1..MaxIndex, files \in SUBSET Paths :
        LET RD == CommitExport(Repo, Dir, dir, idx, NewTitle, UserName, UserEmail,
                               <<"edit">>, Listed(files))
        IN  /\ Len(objects) <= MaxCommits
            /\ calls < MaxCalls
            /\ calls' = calls + 1
            /\ SetRepo(RD.R)
            /\ patches' = RD.D.files
            /\ dirs' = RD.D.dirs
            /\ last' = Record("commit_export",
                              [dir |-> dir, idx |-> idx, title |-> NewTitle,
                               files |-> files], RD.R)
            /\ UNCHANGED others

\* the user changes a file of the working tree
Edit ==
    \E p \in Paths, c \in Contents :
        /\ worktree[p] # c
        /\ worktree' = [worktree EXCEPT ![p] = c]
        /\ last' = [op |-> "edit", args |-> NoArgs, err |-> NoError, rcs |-> << >>,
                     nobj |-> Len(objects), nfiles |-> Cardinality(DOMAIN patches),
                     fresh |-> FALSE, regular |-> Regular(patches),
                     before |-> NoBefore]
        /\ UNCHANGED <<objects, head, index, patches, dirs, calls, others>>

Next ==
    \/ Open
    \/ DoImportPatches
    \/ DoExportQueue
    \/ DoCommitExport
    \/ Edit

Spec == Init /\ [][Next]_vars

\* the patch queue alone: import and export of a directory of patch files
NextQueue ==
    \/ DoImportPatches
    \/ DoExportQueue
    \/ Edit

SpecQueue == InitQueue /\ [][NextQueue]_vars

-----------------------------------------------------------------------------
(* export_queue beside another caller on the same repository: the call is  *)
(* two passes over the commits, and the other caller may run in between.   *)

\* export_queue up to the end of its first loop: the directory is made and
\* emptied and the commits are counted
ExportCountPass ==
    LET made    == [Dir EXCEPT !.dirs = Dir.dirs \cup {Top}]
        cleared == RemoveOldPatches(made, Version)
        walk    == Walker(objects, head)
    IN  /\ exporting.pc # "counted"
        /\ patches' = cleared.files
        /\ dirs' = cleared.dirs
        /\ exporting' = [pc |-> "counted",
                         count |-> CountCommits(objects, walk, NoCount),
                         seen |-> walk, walked |-> << >>,
                         assigned |-> << >>, final |-> NoCount]
        /\ last' = Record("export_queue", NoArgs, Repo)
        /\ UNCHANGED <<objects, head, index, worktree, calls,
                       cli, build, dbus, timer, watch>>

\* the second loop of export_queue, on the commits there are by then
ExportWritePass ==
    LET walk == Walker(objects, head)
        D    == ExportCommits(objects, Dir, Version, walk, exporting.count)
    IN  /\ exporting.pc = "counted"
        /\ patches' = D.files
        /\ dirs' = D.dirs
        /\ exporting' = [exporting EXCEPT
                            !.pc = "done",
                            !.walked = walk,
                            !.assigned = ExportIndices(objects, walk, exporting.count),
                            !.final = ExportCounters(objects, walk, exporting.count)]
        /\ UNCHANGED <<objects, head, index, worktree, calls, last,
                       cli, build, dbus, timer, watch>>

NextRace ==
    \/ DoImportPatches
    \/ ExportCountPass
    \/ ExportWritePass
    \/ DoCommitExport

\* beside a directory of patch files numbered as an export leaves them
InitRace == \E F \in InitialFiles : Regular(FilesOf(F)) /\ Start(F)

SpecRace == InitRace /\ [][NextRace]_vars

-----------------------------------------------------------------------------
(* Runs of fatbuildrctl images.                                            *)

DoRunImages ==
    \E args \in ImagesArgs, available \in PipelinesFormats :
        /\ cli' = RunImages(args, available)
        /\ UNCHANGED <<gitvars, exporting, build, dbus, timer, watch>>

NextImages == DoRunImages

SpecImages == Init /\ [][NextImages]_vars

-----------------------------------------------------------------------------
(* Runs of fatbuildrctl build.                                             *)

\* one run of the command: the process ends with it
DoRunBuild ==
    \E line \in CommandLines, prefs \in UserPreferences, accepted \in BOOLEAN :
        /\ ~build.ran
        /\ build' = RunBuildCommand(line, prefs, accepted)
        /\ UNCHANGED <<gitvars, cli, exporting, dbus, timer, watch>>

NextBuild == DoRunBuild

SpecBuild == Init /\ [][NextBuild]_vars

-----------------------------------------------------------------------------
(* The tasks of the server and a client that gets one.                     *)

\* a task is submitted: it is pending, last of the queue
ServerSubmit ==
    /\ dbus.submitted < MaxTasks
    /\ dbus' = [dbus EXCEPT !.submitted = dbus.submitted + 1,
                            !.queue = Append(dbus.queue, dbus.submitted + 1)]
    /\ UNCHANGED <<gitvars, cli, exporting, build, timer, watch>>

\* the first pending task starts
ServerRun ==
    /\ dbus.running = NoTask
    /\ dbus.queue # << >>
    /\ dbus' = [dbus EXCEPT !.running = Head(dbus.queue),
                            !.queue = Tail(dbus.queue)]
    /\ UNCHANGED <<gitvars, cli, exporting, build, timer, watch>>

\* the running task ends and is archived
ServerArchive ==
    /\ dbus.running # NoTask
    /\ dbus' = [dbus EXCEPT !.running = NoTask,
                            !.archives = <<dbus.running>> \o dbus.archives]
    /\ UNCHANGED <<gitvars, cli, exporting, build, timer, watch>>

\* DbusClient.get(task_id) is called
GetCall ==
    \E task_id \in TaskIds :
        /\ dbus.get.pc # "lookup"
        /\ dbus' = [dbus EXCEPT !.get =
                        [pc |-> "lookup", id |-> task_id, step |-> 1,
                         start |-> PlaceOf(dbus, task_id), found |-> "nowhere"]]
        /\ UNCHANGED <<gitvars, cli, exporting, build, timer, watch>>

\* the next lookup of get: the task is returned when it is there, the
\* exception is raised after the last lookup
GetLookup ==
    LET get   == dbus.get
        place == LookupOrder[get.step]
    IN  /\ get.pc = "lookup"
        /\ dbus' = [dbus EXCEPT !.get =
                        IF get.id \in Lookup(dbus, place)
                        THEN [get EXCEPT !.pc = "returned", !.found = place]
                        ELSE IF get.step = Len(LookupOrder)
                        THEN [get EXCEPT !.pc = "RuntimeError"]
                        ELSE [get EXCEPT !.step = get.step + 1]]
        /\ UNCHANGED <<gitvars, cli, exporting, build, timer, watch>>

NextTasks ==
    \/ ServerSubmit
    \/ ServerRun
    \/ ServerArchive
    \/ GetCall
    \/ GetLookup

SpecTasks == Init /\ [][NextTasks]_vars

-----------------------------------------------------------------------------
(* The threads of the server on its timer.                                 *)

DoRegisterTask ==
    \E task \in TaskIds :
        /\ timer' = RegisterTask(timer, task)
        /\ UNCHANGED <<gitvars, cli, exporting, build, dbus, watch>>

DoUnregisterTask ==
    \E task \in TaskIds :
        /\ timer' = UnregisterTask(timer, task)
        /\ UNCHANGED <<gitvars, cli, exporting, build, dbus, watch>>

DoWaitNoTask(t) ==
    /\ timer.th[t].pc = "idle"
    /\ timer' = WaitNoTask(timer, t)
    /\ UNCHANGED <<gitvars, cli, exporting, build, dbus, watch>>

\* the timeout of a waiting thread expires
Timeout(t) ==
    /\ timer.th[t].pc = "waiting"
    /\ timer' = [timer EXCEPT !.th[t].pc = "expired"]
    /\ UNCHANGED <<gitvars, cli, exporting, build, dbus, watch>>

DoWaitReturn(t) ==
    /\ timer.th[t].pc \in {"notified", "expired"}
    /\ timer' = WaitReturn(timer, t)
    /\ UNCHANGED <<gitvars, cli, exporting, build, dbus, watch>>

NextTimer ==
    \/ DoRegisterTask
    \/ DoUnregisterTask
    \/ \E t \in Threads : DoWaitNoTask(t)
    \/ \E t \in Threads : Timeout(t)
    \/ \E t \in Threads : DoWaitReturn(t)

SpecTimer == Init /\ [][NextTimer]_vars

\* a thread that was woken, or whose timeout has expired, gets the lock
SpecTimerFair == SpecTimer /\ \A t \in Threads : WF_vars(DoWaitReturn(t))

-----------------------------------------------------------------------------
(* A task that logs and a client that watches it.                          *)

\* the running task logs a line
WriteLine ==
    /\ watch.task = "running"
    /\ Len(watch.log) < MaxLines
    /\ watch' = [watch EXCEPT !.log = Append(watch.log, "output")]
    /\ UNCHANGED <<gitvars, cli, exporting, build, dbus, timer>>

\* the running task ends: its final line is logged
WriteFinal ==
    \E line \in FinalLines :
        /\ watch.task = "running"
        /\ watch' = [watch EXCEPT !.log = Append(watch.log, line),
                                  !.task = "finished"]
        /\ UNCHANGED <<gitvars, cli, exporting, build, dbus, timer>>

\* DbusClient.watch(task), with the state the task had when it was got
WatchCall ==
    \E state \in {"running", "finished"} :
        /\ watch.call.pc = "idle"
        /\ state = "finished" => watch.task = "finished"
        /\ watch' = [watch EXCEPT !.call = WatchOpen(state)]
        /\ UNCHANGED <<gitvars, cli, exporting, build, dbus, timer>>

\* the follower starts on the file as it is by then
TailRun ==
    /\ watch.call.pc = "launched"
    /\ watch' = [watch EXCEPT !.call.pc = "reading",
                              !.call.pos = TailStart(Len(watch.log))]
    /\ UNCHANGED <<gitvars, cli, exporting, build, dbus, timer>>

\* fh.readline() and what the loop does with it: a line is yielded; at the
\* end of the file, or of the output of a terminated follower, the loop
\* ends; on a follower that runs the read waits for a line
ReadLine ==
    LET call == watch.call
    IN  /\ call.pc = "reading"
        /\ \/ /\ call.pos < Len(watch.log)
              /\ watch' = [watch EXCEPT !.call = WatchLine(call, watch.log)]
           \/ /\ call.pos = Len(watch.log)
              /\ call.mode = "file" \/ call.proc = "terminated"
              /\ watch' = [watch EXCEPT !.call = WatchEnd(call, watch.log)]
        /\ UNCHANGED <<gitvars, cli, exporting, build, dbus, timer>>

NextWatch ==
    \/ WriteLine
    \/ WriteFinal
    \/ WatchCall
    \/ TailRun
    \/ ReadLine

SpecWatch == Init /\ [][NextWatch]_vars

\* the task ends, the follower starts and the client reads what there is
SpecWatchFair ==
    /\ SpecWatch
    /\ WF_vars(WriteFinal)
    /\ WF_vars(TailRun)
    /\ WF_vars(ReadLine)

-----------------------------------------------------------------------------
(* The patch queue read from files with all kinds of headers.              *)

MetaSamples ==
    << [title |-> <<"x">>,
        text  |-> << Field("Description", <<"first">>),
                     Field("Author", AuthorField("Ann", "ann@x.org")),
                     Field("From", AuthorField("Bob", "bob@y.org")) >>,
        diff  |-> [p \in {"a.txt"} |-> <<0, 1>>]],
       [title |-> <<"y", "-", "z">>,
        text  |-> << Field("Author", AuthorField("Ann", "ann@x.org")),
                     Field("Last-Update", <<Today>>),
                     Field("Origin", <<"upstream">>) >>,
        diff  |-> [p \in {"b.txt"} |-> <<0, 1>>]],
       [title |-> <<"x">>,
        text  |-> << Field("Forwarded", <<"no">>),
                     Field("From", AuthorField("Bob", "bob@y.org")) >>,
        diff  |-> [p \in {"a.txt"} |-> <<0, 1>>]],
       [title |-> <<"y", "-", "z">>,
        text  |-> << Field("Description", <<"fourth">>) >>,
        diff  |-> [p \in {"b.txt"} |-> <<0, 1>>]],
       [title |-> <<"x">>,
        text  |-> << Field("Description", <<"fifth">>),
                     <<NoKey, "no colon here">>,
                     Field("Author", AuthorField("Ann", "ann@x.org")) >>,
        diff  |-> [p \in {"b.txt"} |-> <<0, 1>>]] >>

MetaCandidates ==
    [dir : Subdirs, idx : 1..MaxIndex, sample : 1..Len(MetaSamples)]

MetaPath(c) == FilePath(c.dir, PatchName(c.idx, MetaSamples[c.sample].title))

RECURSIVE MetaUpTo(_)
MetaUpTo(n) ==
    IF n = 0 THEN {{}}
    ELSE MetaUpTo(n - 1)
            \cup {F \cup {c} : F \in MetaUpTo(n - 1), c \in MetaCandidates}

MetaFiles ==
    {F \in MetaUpTo(MaxPatchFiles) :
        \A c, d \in F : c # d => MetaPath(c) # MetaPath(d)}

MetaFilesOf(F) ==
    [q \in {MetaPath(c) : c \in F} |->
        LET c == CHOOSE c \in F : MetaPath(c) = q
        IN  FileContent(MetaSamples[c.sample].text, MetaSamples[c.sample].diff)]

InitMeta == \E F \in MetaFiles : StartOn(MetaFilesOf(F))

NextMeta ==
    \/ DoImportPatches
    \/ DoExportQueue

SpecMeta == InitMeta /\ [][NextMeta]_vars

-----------------------------------------------------------------------------
(* The patch queue and commit_export on patch files of one title.          *)

\* the sets of files of title x
SameTitleFiles ==
    {F \in InitialFiles : \A c \in F : PatchSamples[c.sample].title = NewTitle}

InitTitles == \E F \in SameTitleFiles : Start(F)

NextTitles ==
    \/ DoImportPatches
    \/ DoExportQueue
    \/ DoCommitExport
    \/ Edit

SpecTitles == InitTitles /\ [][NextTitles]_vars

-----------------------------------------------------------------------------
(* What the properties are stated with.                                    *)

\* the commits that have a parent, oldest first
RECURSIVE Reverse(_)
Reverse(q) == IF q = << >> THEN << >> ELSE Reverse(Tail(q)) \o <<Head(q)>>

History(objs, hd) ==
    SelectSeq(Reverse(Walker(objs, hd)), LAMBDA id : objs[id].parents # << >>)

\* the subdirectory a commit belongs to
PartitionOf(objs, id) ==
    IF \E i \in 3..Len(objs[id].message) : objs[id].message[i] = <<"Generic", "yes">>
    THEN "generic" ELSE Version

\* the commits of a subdirectory, oldest first
QueueOf(objs, hd, part) ==
    SelectSeq(History(objs, hd), LAMBDA id : PartitionOf(objs, id) = part)

\* the tree of the commit differs from the tree of its parent
Changed(objs, id) == objs[id].tree # objs[objs[id].parents[1]].tree

Touched(objs, id) ==
    {p \in Paths : objs[id].tree[p] # objs[objs[id].parents[1]].tree[p]}

\* NNNN-title for an index below 10
NameFor(idx, title) == <<"0", "0", "0", DigitChars[idx + 1], "-">> \o title

\* the file the i-th commit of a subdirectory is exported to
PathFor(objs, hd, part, i) ==
    FilePath(part, NameFor(i, objs[QueueOf(objs, hd, part)[i]].message[1]))

IndicesIn(files, dir) == {IndexOfName(n) : n \in NamesIn(files, dir)}

Exported == last.op = "export_queue"
Imported == last.op = "import_patches"

-----------------------------------------------------------------------------
(* Round trip of the patch files through the history.                      *)

\* the last operation was an import_patches on a freshly initialised
\* repository, and every patch file was applied with exit status 0
CleanImport ==
    /\ last.op = "import_patches"
    /\ last.fresh
    /\ last.err = NoError
    /\ Len(last.rcs) = Cardinality(DOMAIN patches)
    /\ \A i \in 1..Len(last.rcs) : last.rcs[i] = 0

Reproduced ==
    \A q \in DOMAIN patches :
        q \in DOMAIN patches' /\ patches'[q].diff = patches[q].diff

-----------------------------------------------------------------------------
(* Failure of the patch command.                                           *)

FirstFailure(rcs) ==
    CHOOSE i \in 1..Len(rcs) : rcs[i] # 0 /\ \A j \in 1..(i - 1) : rcs[j] = 0

(* C2: when the patch command exits non-zero during import_patches, the    *)
(* import aborts with PatchApplicationError: no commit is created for the  *)
(* failed patch and no later patch file is applied or committed.           *)
C2_AbortOnPatchFailure ==
    [][(last'.op = "import_patches"
            /\ \E i \in 1..Len(last'.rcs) : last'.rcs[i] # 0)
          => /\ last'.err = "PatchApplicationError"
             /\ Len(last'.rcs) = FirstFailure(last'.rcs)
             /\ Len(objects') = Len(objects) + FirstFailure(last'.rcs) - 1]_vars

-----------------------------------------------------------------------------
(* C3 (the claim as written): after export_queue, the indices of the files *)
(* of each subdirectory are exactly 1..k, k the number of non-root commits *)
(* of that subdirectory, the oldest commit at index 1.                     *)
C3_IndicesAreAll ==
    Exported =>
        \A part \in Subdirs :
            LET k == Len(QueueOf(objects, head, part))
            IN  /\ IndicesIn(patches, part) = 1..k
                /\ k >= 1 => PathFor(objects, head, part, 1) \in DOMAIN patches

(* C3 (amended): after export_queue, the i-th oldest of the k non-root     *)
(* commits of a subdirectory has index i, and the indices of the files of  *)
(* the subdirectory are exactly the i in 1..k whose commit changes its     *)
(* parent's tree: the oldest commit is at index 1 when it has a file.      *)
C3_Indices ==
    Exported =>
        \A part \in Subdirs :
            LET queue == QueueOf(objects, head, part)
                kept  == {i \in 1..Len(queue) : Changed(objects, queue[i])}
            IN  /\ IndicesIn(patches, part) = kept
                /\ \A i \in kept : PathFor(objects, head, part, i) \in DOMAIN patches

C3_Witness ==
    /\ Exported
    /\ \E part \in Subdirs :
          LET queue == QueueOf(objects, head, part)
          IN  /\ Len(queue) >= 2
              /\ \E i \in 1..Len(queue) : Changed(objects, queue[i])
              /\ \E i \in 1..Len(queue) : ~Changed(objects, queue[i])

-----------------------------------------------------------------------------
(* Files and commits after an export.                                      *)

\* the file q holds the diff and the title of the commit id
FileOfCommit(q, id) ==
    /\ q.dir = PartitionOf(objects, id)
    /\ TitleOfName(q.name) = objects[id].message[1]
    /\ patches[q].diff = TreeDiff(objects[objects[id].parents[1]].tree,
                                  objects[id].tree)
    /\ \E i \in 1..Len(QueueOf(objects, head, q.dir)) :
          /\ QueueOf(objects, head, q.dir)[i] = id
          /\ IndexOfName(q.name) = i

OneToOne(ids) ==
    /\ \A id \in ids :
          Cardinality({q \in DOMAIN patches : FileOfCommit(q, id)}) = 1
    /\ \A q \in DOMAIN patches :
          Cardinality({id \in ids : FileOfCommit(q, id)}) = 1

HistorySet == {History(objects, head)[i] : i \in 1..Len(History(objects, head))}

(* C4 (the claim as written): after export_queue the patch files are in    *)
(* one-to-one correspondence with the non-root commits: every non-root     *)
(* commit has exactly one file, every file is the file of exactly one      *)
(* non-root commit, the root commit has none.                              *)
C4_EveryCommitHasAFile == Exported => OneToOne(HistorySet)

(* C4 (amended): after export_queue the patch files are in one-to-one      *)
(* correspondence with the non-root commits that change their parent's     *)
(* tree; the root commit and the commits with an empty diff have no file.  *)
C4_OneToOne ==
    Exported => OneToOne({id \in HistorySet : Changed(objects, id)})

C4_Witness ==
    /\ Exported
    /\ Cardinality(DOMAIN patches) >= 2
    /\ \E id \in HistorySet : ~Changed(objects, id)

-----------------------------------------------------------------------------
(* C5: export_queue called twice in succession, with no commit in between, *)
(* leaves the same patch files with the same content as the first call.    *)
C5_ExportIdempotent ==
    [][(last.op = "export_queue" /\ last'.op = "export_queue")
          => patches' = patches /\ dirs' = dirs]_vars

C5_Witness ==
    /\ Exported
    /\ last.before.op = "export_queue"
    /\ Cardinality(DOMAIN patches) >= 2

-----------------------------------------------------------------------------
(* Order of the commits after an import.                                   *)

GenericFirst ==
    LET chain == History(objects, head)
    IN  \A i, j \in 1..Len(chain) :
            (PartitionOf(objects, chain[j]) = "generic" /\ i < j)
                => PartitionOf(objects, chain[i]) = "generic"

NoGenericField ==
    \A q \in DOMAIN patches :
        q.dir # "generic" => ~IsMetaGeneric(Deb822(patches[q].text))

(* C6 (the claim as written): after import_patches, in the chain read from *)
(* the root to the head, the commits with Generic: yes come right after    *)
(* the root and before every version specific commit.                      *)
C6_GenericFirstAlways == Imported => GenericFirst

(* C6 (amended): the same after an import_patches that started on a        *)
(* freshly initialised repository and read no version specific file with   *)
(* a Generic: yes field.                                                   *)
C6_GenericFirst == (Imported /\ last.fresh /\ NoGenericField) => GenericFirst

C6_Witness ==
    /\ Imported
    /\ last.fresh
    /\ NoGenericField
    /\ Len(QueueOf(objects, head, "generic")) >= 1
    /\ Len(QueueOf(objects, head, Version)) >= 1

-----------------------------------------------------------------------------
(* Export as a full regeneration.                                          *)

\* the file q of files is the one export_queue writes for a commit of the
\* history: its path, its diff and its Author field
WrittenFromHistory(q, files, objs, hd) ==
    \E part \in Subdirs :
        \E i \in 1..Len(QueueOf(objs, hd, part)) :
            LET id == QueueOf(objs, hd, part)[i]
            IN  /\ q = PathFor(objs, hd, part, i)
                /\ Changed(objs, id)
                /\ files[q].diff = TreeDiff(objs[objs[id].parents[1]].tree,
                                            objs[id].tree)
                /\ \E k \in 1..Len(files[q].text) :
                      files[q].text[k]
                        = <<"Author">> \o AuthorField(objs[id].author.name,
                                                      objs[id].author.email)

(* C7: after export_queue no file that was under generic or the version    *)
(* subdirectory before the call is left, unless the call wrote it from a   *)
(* commit of the history.                                                  *)
C7_FullRegeneration ==
    [][last'.op = "export_queue"
          => \A q \in DOMAIN patches :
                q \in DOMAIN patches'
                    => WrittenFromHistory(q, patches', objects', head')]_vars

C7_Witness ==
    /\ Exported
    /\ last.nfiles >= 2
    /\ Cardinality(DOMAIN patches) = 1

-----------------------------------------------------------------------------
(* commit_export.                                                          *)

OneCommitAppended ==
    /\ Len(objects') = Len(objects) + 1
    /\ SubSeq(objects', 1, Len(objects)) = objects
    /\ head' = Len(objects')
    /\ objects'[head'].parents = <<head>>

GivenPath == FilePath(last'.args.dir, NameFor(last'.args.idx, last'.args.title))

OthersUntouched ==
    /\ DOMAIN patches' \ {GivenPath} = DOMAIN patches \ {GivenPath}
    /\ \A q \in DOMAIN patches \ {GivenPath} : patches'[q] = patches[q]

\* the files whose staged content is not that of the head
Staged == {p \in Paths : index[p] # objects[head].tree[p]}

(* C8 (the claim as written): commit_export appends exactly one commit     *)
(* whose parent is the prior head and creates exactly one patch file,      *)
(* named with the index zero-padded to 4 digits, a dash and the title,     *)
(* whose diff touches only the given files.                                *)
C8_AlwaysOneFile ==
    [][last'.op = "commit_export"
          => /\ OneCommitAppended
             /\ OthersUntouched
             /\ GivenPath \in DOMAIN patches' \ DOMAIN patches
             /\ DOMAIN patches'[GivenPath].diff \subseteq last'.args.files]_vars

(* C8 (amended): commit_export appends exactly one commit whose parent is  *)
(* the prior head and writes at most one patch file, named with the index  *)
(* zero-padded to 4 digits, a dash and the title: the file is written,     *)
(* new or over the file of that name, when the commit changes the tree of  *)
(* the prior head, and no file is written otherwise; its diff touches only *)
(* the given files and the files that were staged before the call.         *)
C8_SingleCommitExport ==
    [][last'.op = "commit_export"
          => /\ OneCommitAppended
             /\ OthersUntouched
             /\ IF Changed(objects', head')
                THEN /\ GivenPath \in DOMAIN patches'
                     /\ DOMAIN patches'[GivenPath].diff = Touched(objects', head')
                     /\ DOMAIN patches'[GivenPath].diff
                            \subseteq last'.args.files \cup Staged
                ELSE /\ GivenPath \in DOMAIN patches' <=> GivenPath \in DOMAIN patches
                     /\ GivenPath \in DOMAIN patches
                            => patches'[GivenPath] = patches[GivenPath]]_vars

C8_Witness ==
    /\ last.op = "commit_export"
    /\ last.args.files = {"a.txt"}
    /\ worktree["b.txt"] # objects[head].tree["b.txt"]
    /\ Changed(objects, head)
    /\ FilePath(last.args.dir, NameFor(last.args.idx, last.args.title))
          \in DOMAIN patches

-----------------------------------------------------------------------------
(* C9: during export_queue a commit whose tree equals its parent's tree    *)
(* produces no patch file, the export goes on with the other commits, and  *)
(* that commit does not change the indices of the commits of the other     *)
(* subdirectory.                                                           *)
C9_EmptyDiffSkipped ==
    Exported =>
        \A part \in Subdirs :
            LET queue == QueueOf(objects, head, part)
            IN  \A i \in 1..Len(queue) :
                  ~Changed(objects, queue[i]) =>
                    /\ PathFor(objects, head, part, i) \notin DOMAIN patches
                    /\ \A j \in 1..Len(queue) :
                          Changed(objects, queue[j])
                            => PathFor(objects, head, part, j) \in DOMAIN patches
                    /\ \A other \in Subdirs \ {part} :
                          \A j \in 1..Len(QueueOf(objects, head, other)) :
                            Changed(objects, QueueOf(objects, head, other)[j])
                              => PathFor(objects, head, other, j) \in DOMAIN patches

C9_Witness ==
    /\ Exported
    /\ \E part \in Subdirs :
          LET queue == QueueOf(objects, head, part)
              other == QueueOf(objects, head, CHOOSE o \in Subdirs : o # part)
          IN  /\ \E i \in 1..Len(queue) : ~Changed(objects, queue[i])
              /\ \E j \in 1..Len(other) : Changed(objects, other[j])

-----------------------------------------------------------------------------
(* C10: constructing the repository handle on a path that already holds a  *)
(* repository with commits succeeds and leaves the head, the commit chain  *)
(* and the single root commit as they were.                                *)
C10_OpenIdempotent ==
    [][(last'.op = "GitRepository")
          => /\ last'.err = NoError
             /\ objects' = objects
             /\ head' = head]_vars

-----------------------------------------------------------------------------
(* The history as a chain.                                                 *)

\* commit 1 is the root, titled "Initial commit"; every other commit has
\* the commit before it as its only parent; HEAD is the last commit
LinearChain ==
    /\ Len(objects) >= 1
    /\ head = Len(objects)
    /\ \A id \in 1..Len(objects) :
          IF id = 1
          THEN /\ objects[id].parents = << >>
               /\ MessageTitle(objects[id]) = <<"Initial commit">>
          ELSE objects[id].parents = <<id - 1>>

\* the commits that were there stay as they are, and the first commit a
\* step adds has the head of before the step as its parent
AppendOnly ==
    /\ Len(objects') >= Len(objects)
    /\ SubSeq(objects', 1, Len(objects)) = objects
    /\ Len(objects') > Len(objects)
          => objects'[Len(objects) + 1].parents = <<head>>

(* C11: after any sequence of import_patches, commit_export and            *)
(* export_queue calls the history is one linear chain: every commit has at *)
(* most one parent, only the root, titled "Initial commit", has none, a    *)
(* new commit has the head of the time as its parent, and the commits of   *)
(* the chain are never altered or removed.                                 *)
C11_LinearHistory == []LinearChain /\ [][AppendOnly]_vars

C11_Witness ==
    /\ Exported
    /\ calls >= 1
    /\ Len(objects) >= 3
    /\ Cardinality(DOMAIN patches) >= 2

-----------------------------------------------------------------------------
(* The header of a patch file and the message of its commit.               *)

\* the files import_patches reads, in the order it reads them
FilesOfSubdir(files, ds, dir) ==
    IF dir \in ds
    THEN [i \in 1..Cardinality(NamesIn(files, dir)) |->
            FilePath(dir, Sorted(NamesIn(files, dir))[i])]
    ELSE << >>

ImportOrder(files, ds) ==
    FilesOfSubdir(files, ds, "generic") \o FilesOfSubdir(files, ds, Version)

\* the author field of a header: Author, and From when there is no Author
AuthorFieldOf(meta) ==
    IF HasKey(meta, "Author") THEN "Author"
    ELSE IF HasKey(meta, "From") THEN "From"
    ELSE "none"

\* the identity a header gives to its commit
IdentityOf(meta) ==
    IF AuthorFieldOf(meta) = "none"
    THEN Signature("Unknown Author", "unknown@email.com")
    ELSE Signature(GetKey(meta, AuthorFieldOf(meta))[1],
                   GetKey(meta, AuthorFieldOf(meta))[3])

\* the position of a commit among the commits of its subdirectory
PositionOf(objs, hd, id) ==
    CHOOSE k \in 1..Len(QueueOf(objs, hd, PartitionOf(objs, id))) :
        QueueOf(objs, hd, PartitionOf(objs, id))[k] = id

\* the file export_queue writes for a commit
ExportPath(objs, hd, id) ==
    PathFor(objs, hd, PartitionOf(objs, id), PositionOf(objs, hd, id))

\* an export_queue that follows an import_patches which started on a
\* freshly initialised repository and returned
ExportAfterImport ==
    /\ last.op = "import_patches"
    /\ last.fresh
    /\ last.err = NoError
    /\ last'.op = "export_queue"

(* C12: for a patch file whose header holds an author field of value       *)
(* Name <email> and other fields, the file exported after the import for   *)
(* the commit of the patch carries the same other fields with the same     *)
(* values, and an Author field equal to Name <email>.                      *)
C12_MetadataPreserved ==
    [][ExportAfterImport =>
          \A i \in 1..Len(ImportOrder(patches, dirs)) :
              LET src == Deb822(patches[ImportOrder(patches, dirs)[i]].text)
                  id  == 1 + i
                  out == ExportPath(objects, head, id)
              IN  (AuthorFieldOf(src) # "none" /\ Changed(objects, id)) =>
                    /\ out \in DOMAIN patches'
                    /\ LET got == Deb822(patches'[out].text)
                       IN  /\ \A k \in 1..Len(src) :
                                 src[k].key \notin {"Author", "From", "Generic"}
                                   => /\ HasKey(got, src[k].key)
                                      /\ GetKey(got, src[k].key) = src[k].value
                           /\ HasKey(got, "Author")
                           /\ GetKey(got, "Author")
                                 = GetKey(src, AuthorFieldOf(src))]_vars

(* C13: no commit created by import_patches has an Author or a From field  *)
(* in the metadata block of its message.                                   *)
C13_NoAuthorInMessage ==
    [][last'.op = "import_patches" =>
          \A id \in (Len(objects) + 1)..Len(objects') :
              /\ ~HasKey(MessageMeta(objects'[id]), "Author")
              /\ ~HasKey(MessageMeta(objects'[id]), "From")]_vars

(* C14: the identity of an imported commit is read from the Author field   *)
(* when there is one, otherwise from the From field when there is one; a   *)
(* file with neither does not make the import fail and its commit has the  *)
(* identity "Unknown Author" <unknown@email.com>.                          *)
C14_AuthorResolution ==
    [][last'.op = "import_patches" =>
          LET order == ImportOrder(patches, dirs)
          IN  /\ last'.err = NoError
              /\ Len(objects') = Len(objects) + Len(order)
              /\ \A i \in 1..Len(order) :
                    objects'[Len(objects) + i].author
                        = IdentityOf(Deb822(patches[order[i]].text))]_vars

\* a line of the header is neither a field nor a continuation
Malformed(text) == \E k \in 1..Len(text) : text[k] # Blank /\ Head(text[k]) = NoKey

(* C15: a patch file with a malformed metadata block makes import_patches  *)
(* abort with MetadataParseError, the patch neither applied nor committed. *)
(* (The messages export_queue reads were all written from parsed metadata, *)
(* so that no malformed block reaches it.)                                 *)
C15_MalformedAborts ==
    [][last'.op = "import_patches" =>
          LET order == ImportOrder(patches, dirs)
              bad   == {i \in 1..Len(order) : Malformed(patches[order[i]].text)}
          IN  bad # {} =>
                LET first == CHOOSE i \in bad : \A j \in bad : i <= j
                IN  /\ last'.err = "MetadataParseError"
                    /\ Len(objects') = Len(objects) + first - 1
                    /\ Len(last'.rcs) = first - 1]_vars

-----------------------------------------------------------------------------
(* C16: import_patches skips without error a subdirectory that does not    *)
(* exist, the files of the other one being imported; when neither generic  *)
(* nor the version subdirectory exists it returns normally and leaves the  *)
(* head and the commit chain as they were.                                 *)
C16_MissingSubdirSkipped ==
    [][(last'.op = "import_patches" /\ Subdirs \ dirs # {}) =>
          /\ last'.err = NoError
          /\ Len(objects') = Len(objects) + Len(ImportOrder(patches, dirs))
          /\ Subdirs \cap dirs = {} => objects' = objects /\ head' = head]_vars

C16_Witness ==
    /\ Imported
    /\ last.err = NoError
    /\ Cardinality(Subdirs \cap dirs) = 1
    /\ Len(objects) = last.nobj + last.nfiles
    /\ last.nfiles >= 1

-----------------------------------------------------------------------------
(* The Generic field and the subdirectory of a patch.                      *)

\* the commit import_patches creates for the i-th file it reads
ImportedCommit(i) == objects'[Len(objects) + i]

\* import_patches returned, with one commit for each file
ImportStep ==
    /\ last'.op = "import_patches"
    /\ last'.err = NoError
    /\ Len(objects') = Len(objects) + Len(ImportOrder(patches, dirs))

\* export_queue puts the file of a commit under generic when the message
\* of the commit has Generic: yes and under the version otherwise, and
\* writes no Generic field
PlacedByMarker ==
    /\ \A id \in 2..Len(objects) :
          Changed(objects, id) =>
            /\ ExportPath(objects, head, id) \in DOMAIN patches'
            /\ ExportPath(objects, head, id).dir
                  = IF IsMetaGeneric(MessageMeta(objects[id]))
                    THEN "generic" ELSE Version
    /\ \A q \in DOMAIN patches' : ~HasKey(Deb822(patches'[q].text), "Generic")

(* C17 (the claim as written): a commit imported from the generic          *)
(* subdirectory has Generic: yes and is exported into generic, a commit    *)
(* imported from the version subdirectory is exported into the version     *)
(* subdirectory, and no exported file contains a Generic field.            *)
C17_PlacementAnyFile ==
    [][/\ ImportStep =>
            \A i \in 1..Len(ImportOrder(patches, dirs)) :
                IsMetaGeneric(MessageMeta(ImportedCommit(i)))
                    <=> ImportOrder(patches, dirs)[i].dir = "generic"
       /\ last'.op = "export_queue" => PlacedByMarker]_vars

(* C17 (amended): a commit imported from the generic subdirectory, or from *)
(* a file of the version subdirectory whose header has Generic: yes, has   *)
(* Generic: yes and is exported into generic; a commit imported from any   *)
(* other file of the version subdirectory is exported into the version     *)
(* subdirectory; no exported file contains a Generic field.                *)
C17_Placement ==
    [][/\ ImportStep =>
            \A i \in 1..Len(ImportOrder(patches, dirs)) :
                LET q == ImportOrder(patches, dirs)[i]
                IN  IsMetaGeneric(MessageMeta(ImportedCommit(i)))
                        <=> \/ q.dir = "generic"
                            \/ IsMetaGeneric(Deb822(patches[q].text))
       /\ last'.op = "export_queue" => PlacedByMarker]_vars

C17_Witness ==
    /\ Exported
    /\ last.before.op = "import_patches"
    /\ \E id, jd \in 2..Len(objects) :
          /\ Changed(objects, id) /\ Changed(objects, jd)
          /\ ExportPath(objects, head, id).dir = "generic"
          /\ ExportPath(objects, head, jd).dir = Version
          /\ ExportPath(objects, head, id) \in DOMAIN patches
          /\ ExportPath(objects, head, jd) \in DOMAIN patches

-----------------------------------------------------------------------------
(* Patch files written over.                                               *)

\* no two commits of a subdirectory are exported to the same file
DistinctPaths ==
    \A id, jd \in 2..Len(objects) :
        (id # jd /\ PartitionOf(objects, id) = PartitionOf(objects, jd))
            => ExportPath(objects, head, id) # ExportPath(objects, head, jd)

\* the files that were there are there with the content they had
NothingReplaced ==
    \A q \in DOMAIN patches : q \in DOMAIN patches' /\ patches'[q] = patches[q]

(* C18: no patch file is silently overwritten: within one export_queue no  *)
(* two commits of a subdirectory resolve to the same file path, even with  *)
(* the same title, and commit_export never replaces the content of a patch *)
(* file that is already in patches_dir.                                    *)
C18_NoSilentOverwrite ==
    [][/\ last'.op = "export_queue" => DistinctPaths
       /\ last'.op = "commit_export" => NothingReplaced]_vars

-----------------------------------------------------------------------------
(* C19: the images command run with --create-envs (or --update-envs) and   *)
(* without --create and --update reaches the stage of the build            *)
(* environments and calls create_envs (or update_envs) on the images       *)
(* manager for every selected format, instead of exiting with the          *)
(* "operation must be specified" error.                                    *)
C19_EnvsStageReached ==
    (/\ cli.ran
     /\ ~cli.args.create /\ ~cli.args.update
     /\ cli.args.create_envs # cli.args.update_envs)
        => /\ cli.status = 0
           /\ cli.out # NoOperation
           /\ Len(cli.calls) = Len(cli.selected)
           /\ \A i \in 1..Len(cli.calls) :
                 /\ cli.calls[i].format = cli.selected[i]
                 /\ cli.calls[i].op = IF cli.args.create_envs
                                      THEN "create_envs" ELSE "update_envs"

-----------------------------------------------------------------------------
(* One commit per patch file, in the order of the file names.              *)

\* the place of a file name in the lexicographic order of its subdirectory
Rank(files, dir, name) ==
    1 + Cardinality({m \in NamesIn(files, dir) : StrLess(m, name)})

\* title is what follows the first dash of name
AfterFirstDash(name, title) ==
    \E k \in 1..Len(name) :
        /\ name[k] = "-"
        /\ \A j \in 1..(k - 1) : name[j] # "-"
        /\ title = SubSeq(name, k + 1, Len(name))

(* C20: within each subdirectory import_patches creates exactly one commit *)
(* per patch file, in lexicographic order of the file names: the i-th file *)
(* of the sorted listing becomes the i-th commit appended for the          *)
(* subdirectory, its title the file name after the first dash.             *)
C20_OneCommitPerFile ==
    [][last'.op = "import_patches" =>
          LET generic == NamesIn(patches, "generic")
              version == NamesIn(patches, Version)
              first   == Len(objects)
              second  == Len(objects) + Cardinality(generic)
          IN  /\ Len(objects') = second + Cardinality(version)
              /\ \A n \in generic :
                    AfterFirstDash(n,
                        MessageTitle(objects'[first + Rank(patches, "generic", n)]))
              /\ \A n \in version :
                    AfterFirstDash(n,
                        MessageTitle(objects'[second + Rank(patches, Version, n)]))]_vars

C20_Witness ==
    /\ Imported
    /\ Len(objects) = last.nobj + 2
    /\ \E dir \in Subdirs :
          \E n, m \in NamesIn(patches, dir) :
              /\ StrLess(n, m)
              /\ StrLess(TitleOfName(m), TitleOfName(n))
              /\ MessageTitle(objects[last.nobj + 1]) = TitleOfName(n)
              /\ MessageTitle(objects[last.nobj + 2]) = TitleOfName(m)

-----------------------------------------------------------------------------
(* export_queue beside another caller.                                     *)

Kinds == {"generic", "version"}

KindOf(id) ==
    IF IsMetaGeneric(MessageMeta(objects[id])) THEN "generic" ELSE "version"

\* the commits of a kind the second loop met and the first loop had not
AppendedIn(kind) ==
    {id \in {exporting.walked[i] : i \in 1..Len(exporting.walked)} :
        /\ id \notin {exporting.seen[i] : i \in 1..Len(exporting.seen)}
        /\ objects[id].parents # << >>
        /\ KindOf(id) = kind}

\* what the second loop assigned to the oldest commit of a kind
OldestOf(kind) ==
    LET at == {i \in 1..Len(exporting.assigned) : exporting.assigned[i].kind = kind}
    IN  exporting.assigned[CHOOSE i \in at : \A j \in at : j <= i]

\* C21: export_queue is not atomic with respect to commits.  When no commit
\* is appended between its counting pass and its writing pass, every index
\* the writing pass assigns lies in 1..count of its kind and both counters
\* are 0 at the end.  When k >= 1 commits of a kind are appended in between,
\* the writing pass assigns an index outside that range: the oldest commit
\* of the kind gets index 1 - k, which is 0 for one appended commit, and the
\* counter of the kind does not end at 0.
C21_ExportNotAtomic ==
    exporting.pc = "done" =>
        /\ (\A kind \in Kinds : AppendedIn(kind) = {}) =>
               /\ \A i \in 1..Len(exporting.assigned) :
                     exporting.assigned[i].index
                        \in 1..exporting.count[exporting.assigned[i].kind]
               /\ exporting.final = NoCount
        /\ \A kind \in Kinds :
              LET k == Cardinality(AppendedIn(kind))
              IN  k >= 1 =>
                     /\ OldestOf(kind).index = 1 - k
                     /\ OldestOf(kind).index \notin 1..exporting.count[kind]
                     /\ k = 1 => OldestOf(kind).index = 0
                     /\ exporting.final[kind] = 0 - k

\* an export that counted a commit, met one more in its writing pass and
\* gave index 0 to the commit it had counted
C21_Witness ==
    /\ exporting.pc = "done"
    /\ exporting.count.version >= 1
    /\ Cardinality(AppendedIn("version")) = 1
    /\ OldestOf("version").index = 0
    /\ OldestOf("version").id
          \in {exporting.seen[i] : i \in 1..Len(exporting.seen)}

\* an export no caller came across: the indices are 1..count
C21_WitnessSerial ==
    /\ exporting.pc = "done"
    /\ \A kind \in Kinds : AppendedIn(kind) = {}
    /\ exporting.count.generic >= 1
    /\ exporting.count.version >= 1

-----------------------------------------------------------------------------
(* What import and export leave alone.                                     *)

\* C22: export_queue leaves the repository unchanged (same head, same
\* commits, none created) and import_patches leaves the patch files
\* unchanged (none created, deleted or rewritten).
C22_FrameEffect ==
    [][/\ last'.op = "export_queue" => objects' = objects /\ head' = head
       /\ last'.op = "import_patches" => patches' = patches]_vars

\* an import that made commits of the files an export had written
C22_Witness ==
    /\ last.op = "import_patches"
    /\ last.before.op = "export_queue"
    /\ Len(objects) > last.nobj
    /\ last.nobj >= 2
    /\ DOMAIN patches # {}

-----------------------------------------------------------------------------
(* The parameters of fatbuildrctl build.                                   *)

\* C23: the host is the --host argument when it is given, else the host of
\* the user preferences when they define one, else 'local'.
C23_HostPriority ==
    build.ran =>
        build.host = IF build.line.host # None THEN build.line.host
                     ELSE IF build.prefs.host # None THEN build.prefs.host
                     ELSE "local"

\* C24: the email of a build request is the --email argument when it is
\* given, else the email of the user preferences; the command fails when
\* neither is defined, and the email is never the user name.
C24_RequestEmail ==
    build.ran =>
        LET email == IF build.line.email # None THEN build.line.email
                     ELSE build.prefs.user_email
        IN  /\ email = None => build.status = 1
            /\ build.status = 0 =>
                  /\ build.request.user_email = email
                  /\ build.request.user_email # build.request.user_name

-----------------------------------------------------------------------------
(* DbusClient.get beside the server.                                       *)

-----------------------------------------------------------------------------
(* ServerTimer.                                                            *)

\* C26: waitnotask returns True only if the set of tasks is empty at the
\* moment it returns, whatever the other threads register and unregister
\* while the thread waits.
C26_TrueOnlyIfNoTask ==
    \A t \in Threads : timer.th[t].ret = "True" => timer.th[t].empty

\* C27: no wake-up is lost: a thread blocked in waitnotask while the set of
\* tasks is empty, the last task being unregistered, is woken and returns
\* True, not by its timeout; and unregister_task of a task that is not
\* registered leaves the set unchanged and does not raise.
C27_NoLostWakeup ==
    /\ [](timer.unregistered.called =>
             /\ ~timer.unregistered.raised
             /\ ~timer.unregistered.known => ~timer.unregistered.changed)
    /\ \A t \in Threads :
          (timer.th[t].pc \in {"waiting", "notified"} /\ timer.tasks = {})
              ~> (timer.th[t].ret = "True")

-----------------------------------------------------------------------------
(* DbusClient.watch.                                                       *)

\* the lines 1..n in order
FirstLines(n) == [i \in 1..n |-> i]

\* watch yields lines in the order of the file
InOrder ==
    \A i \in 1..(Len(watch.call.out) - 1) :
        watch.call.out[i] < watch.call.out[i + 1]

\* watch on a running task ends once it has yielded every line of the log
\* up to the final line, its follower terminated
FollowedWhole ==
    (watch.call.pc = "done" /\ watch.call.mode = "tail")
        => /\ watch.call.proc = "terminated"
           /\ IsFinal(watch.log[Len(watch.log)])
           /\ watch.call.out = FirstLines(Len(watch.log))

\* watch on another task ends at the end of the file with the whole of it
ReadWhole ==
    (watch.call.pc = "done" /\ watch.call.mode = "file")
        => watch.call.out = FirstLines(watch.call.eof)

\* C28: watch terminates and yields the log lines in order.  On a running
\* task it follows the log and stops after the final line ("Task failed",
\* "Task succeeded") is yielded, the follower being terminated, and every
\* line before the final one is yielded; on another task it yields the
\* whole file and stops at its end.
C28_WatchTerminates ==
    /\ [](InOrder /\ FollowedWhole /\ ReadWhole)
    /\ (watch.call.pc # "idle") ~> (watch.call.pc = "done")

\* the parts of C28 that hold on a running task: watch ends, in order, on
\* the final line, having yielded every line from where the follower began
C28_Terminates ==
    /\ [](InOrder /\ ReadWhole)
    /\ [](watch.call.pc = "done" /\ watch.call.mode = "tail"
             => /\ watch.call.proc = "terminated"
                /\ watch.call.out # << >>
                /\ watch.call.out[Len(watch.call.out)] = Len(watch.log))
    /\ (watch.call.pc # "idle") ~> (watch.call.pc = "done")

====
